---------------------------- MODULE Spec2Model ----------------------------
(***************************************************************************)
(* Model of eharris/mbot-rest:                                             *)
(*   src/tools/update_leaderboard.py  the merge tool (load existing, fold  *)
(*                                    batches, temp file + os.replace)     *)
(*   src/restapi.py                   the REST API (ts_parse,              *)
(*                                    read_json_dict, weather_find,        *)
(*                                    leaders_timerange, weather_at_time)  *)
(*                                                                         *)
(* Text is a sequence of one-character strings, so that str(), '+'.join,   *)
(* strptime and sorted() are computed on characters.  A JSON value is a    *)
(* record [t, v]: t is the JSON type, v its text (or, for an object, its   *)
(* members in file order).  A file is a sequence of chunks.                *)
(***************************************************************************)
EXTENDS Integers, Sequences, FiniteSets, TLC

VARIABLES
    inodes,     \* file system: inode number -> content (sequence of chunks)
    dir,        \* directory entry of the leaderboard file: inode, 0 = absent
    pc,         \* merge tool: position of the running process
    args,       \* merge tool: sys.argv[1:], the batch files of the run
    argi,       \* merge tool: index of the next batch file to fold
    data,       \* merge tool: the in-memory dict `data`
    loadOk,     \* merge tool: the existing file was read and decoded
    tmp,        \* merge tool: inode of the NamedTemporaryFile, 0 = none
    runs,       \* number of merge tool runs started
    before,     \* history: the leaderboard file as the run found it
    committed,  \* history: the contents the leaderboard name has held since
                \* the oldest read still in flight began
    rpc,        \* API reader: position of each in-flight read_json_dict
    rfd,        \* API reader: inode of the open file object
    rbuf,       \* API reader: chunks read so far
    weather,    \* the weather file's `features` list
    resp        \* API: the last response

vars == <<inodes, dir, pc, args, argi, data, loadOk, tmp, runs, before,
          committed, rpc, rfd, rbuf, weather, resp>>

toolVars == <<pc, args, argi, data, loadOk, tmp, runs, before>>
readerVars == <<rpc, rfd, rbuf>>
apiVars == <<weather, resp>>

-----------------------------------------------------------------------------
(* Bounds *)

\* batch files on one command line
MaxArgs == 2
\* merge tool runs, one after the other
MaxRuns == 2
\* merge tool runs beside concurrent reads
MaxAtomicRuns == 2
\* write()/read() calls a file's text is split over
Chunks == 2
\* observations in the weather file
MaxObs == 2

-----------------------------------------------------------------------------
(* Text *)

\* The characters used, in code point order (Python compares str by code point).
Alphabet == <<" ", "'", "+", ",", "0", "1", "2", "3", ":", "Z", "a", "b", "x", "{", "}">>

Ord(c) == CHOOSE i \in 1..Len(Alphabet) : Alphabet[i] = c

Digits == {"0", "1", "2", "3"}

\* str.__lt__: lexicographic by code point, a proper prefix is smaller
RECURSIVE StrLess(_, _)
StrLess(a, b) ==
    IF b = <<>> THEN FALSE
    ELSE IF a = <<>> THEN TRUE
    ELSE IF Head(a) = Head(b) THEN StrLess(Tail(a), Tail(b))
    ELSE Ord(Head(a)) < Ord(Head(b))

\* sep.join(parts)
RECURSIVE Join(_, _)
Join(sep, parts) ==
    IF parts = <<>> THEN <<>>
    ELSE IF Len(parts) = 1 THEN parts[1]
    ELSE parts[1] \o sep \o Join(sep, Tail(parts))

\* sorted(S) for a set of str
RECURSIVE Sorted(_)
Sorted(S) ==
    IF S = {} THEN <<>>
    ELSE LET m == CHOOSE x \in S : \A y \in S \ {x} : StrLess(x, y)
         IN  <<m>> \o Sorted(S \ {m})

-----------------------------------------------------------------------------
(* JSON values *)

JStr(s) == [t |-> "str", v |-> s]
JNum(s) == [t |-> "num", v |-> s]
JObj(members) == [t |-> "obj", v |-> members]
Absent == [t |-> "absent", v |-> <<>>]

\* repr() of a str member of a dict: quoted
Quoted(s) == <<"'">> \o s \o <<"'">>

\* str() of a dict whose members are <<name, text>>: "{'b': '1', 'a': '2'}",
\* members in the dict's insertion order
ReprMembers(ms) ==
    IF ms = <<>> THEN <<>>
    ELSE [i \in 1..Len(ms) |->
             Quoted(ms[i][1]) \o <<":", " ">> \o Quoted(ms[i][2])]

\* str(value), and str('') for the default of d.get(key, '')
Str(val) ==
    IF val.t = "obj"
    THEN <<"{">> \o Join(<<",", " ">>, ReprMembers(val.v)) \o <<"}">>
    ELSE val.v

\* json.dump(..., sort_keys=True) then json.load: the members of every object
\* come back in sorted name order
RECURSIVE SortMembers(_)
SortMembers(ms) ==
    IF ms = <<>> THEN <<>>
    ELSE LET i == CHOOSE j \in 1..Len(ms) :
                      \A k \in 1..Len(ms) : k = j \/ StrLess(ms[j][1], ms[k][1])
         IN  <<ms[i]>> \o SortMembers([k \in 1..(Len(ms) - 1) |->
                                          IF k < i THEN ms[k] ELSE ms[k + 1]])

DumpLoadVal(val) ==
    IF val.t = "obj" THEN JObj(SortMembers(val.v)) ELSE val

-----------------------------------------------------------------------------
(* Event records, composite keys, datasets *)

\* A JSON object used as an event record.  isdict is FALSE for a list element
\* that is not an object (a number, a string): it has no .get().
Rec(sd, name, rank, score) ==
    [isdict |-> TRUE, start_date |-> sd, athlete_name |-> name,
     rank |-> rank, score |-> score]

NonDict ==
    [isdict |-> FALSE, start_date |-> Absent, athlete_name |-> Absent,
     rank |-> Absent, score |-> Absent]

unique_key_fields == <<"start_date", "athlete_name", "rank">>

\* '+'.join(str(d.get(key, '')) for key in keys)
make_composite_key(d, keys) ==
    Join(<<"+">>, [i \in 1..Len(keys) |-> Str(d[keys[i]])])

\* A dataset (the dict `data`, the decoded leaderboard file) is a set of
\* [key, rec] with one element per key.
Keys(ds) == {p.key : p \in ds}

Lookup(ds, k) == (CHOOSE p \in ds : p.key = k).rec

DumpLoadRec(r) ==
    [r EXCEPT !.start_date = DumpLoadVal(@), !.athlete_name = DumpLoadVal(@),
              !.rank = DumpLoadVal(@), !.score = DumpLoadVal(@)]

\* the dataset as json.load gives it back after json.dump(data, sort_keys=True)
DumpLoad(ds) == {[key |-> p.key, rec |-> DumpLoadRec(p.rec)] : p \in ds}

\* the text json.dump writes, one chunk per write()
Serialize(ds) == [i \in 1..Chunks |-> [ds |-> DumpLoad(ds), part |-> i]]

\* json.load of a file's text: the dataset, or an exception (ok = FALSE) for
\* an empty, truncated or mixed text
Parse(content) ==
    IF /\ Len(content) = Chunks
       /\ \A i \in 1..Len(content) :
              content[i].part = i /\ content[i].ds = content[1].ds
    THEN [ok |-> TRUE, ds |-> content[1].ds]
    ELSE [ok |-> FALSE, ds |-> {}]

\* the leaderboard file as a process opening it now finds it
FileNow ==
    IF dir = 0 THEN [exists |-> FALSE, content |-> <<>>]
    ELSE [exists |-> TRUE, content |-> inodes[dir]]

Readers == {"r1", "r2"}

\* the inodes some name or open file object refers to
Live(d, t, pcs, fds) == ({d, t} \cup {fds[r] : r \in {q \in Readers : pcs[q] = "reading"}}) \ {0}

\* an inode nothing refers to is freed: its content is gone
Collect(ino, live) ==
    LET used == {i \in 1..Len(ino) : i \in live}
        n == IF used = {} THEN 0 ELSE CHOOSE i \in used : \A j \in used : j <= i
    IN  [i \in 1..n |-> IF i \in live THEN ino[i] ELSE <<>>]

\* the inode a newly created file gets
FreshInode ==
    CHOOSE i \in 1..(Len(inodes) + 1) :
        /\ i \notin Live(dir, tmp, rpc, rfd)
        /\ \A j \in 1..(i - 1) : j \in Live(dir, tmp, rpc, rfd)

Quiet(pcs) == \A r \in Readers : pcs[r] = "idle"

-----------------------------------------------------------------------------
(* Inputs of the merge tool: event records and batch files *)

TsZ1 == <<"1", "Z">>
TsPadded2 == <<"0", "2">>
TsOffset3 == <<"3", "+", "0", "0", ":", "0", "0">>
TsGarbage == <<"x">>

E1 == Rec(JStr(TsZ1), JStr(<<"a">>), JNum(<<"1">>), JNum(<<"1">>))
\* the same composite key as E1: rank is the text "1", not the number 1
E1s == Rec(JStr(TsZ1), JStr(<<"a">>), JStr(<<"1">>), JNum(<<"2">>))
E2 == Rec(JStr(TsPadded2), JStr(<<"b">>), JNum(<<"2">>), JNum(<<"1">>))
\* athlete_name is an object whose members are not in sorted order
EObj == Rec(JStr(TsZ1), JObj(<<<<<<"b">>, <<"1">>>>, <<<<"a">>, <<"2">>>>>>),
            JNum(<<"1">>), JNum(<<"1">>))

\* A batch file: valid is FALSE when json.load raises; entries is the value of
\* d['entries'] ("absent": no such member, "list": an array, "obj": an object).
BatchList(es) == [valid |-> TRUE, entries |-> [t |-> "list", v |-> es]]
BatchInvalidJson == [valid |-> FALSE, entries |-> [t |-> "absent", v |-> <<>>]]
BatchNoEntries == [valid |-> TRUE, entries |-> [t |-> "absent", v |-> <<>>]]
\* {"entries": {}}
BatchEntriesEmptyObject == [valid |-> TRUE, entries |-> [t |-> "obj", v |-> <<>>]]

WellFormedBatches ==
    { BatchList(<<E1, E1s>>), BatchList(<<E1>>), BatchList(<<E2>>),
      BatchList(<<EObj>>) }

\* malformed: not valid JSON, no `entries` array, or an element that is no object
MalformedBatches ==
    { BatchInvalidJson, BatchNoEntries, BatchEntriesEmptyObject,
      BatchList(<<E2, NonDict>>) }

BatchFiles == WellFormedBatches \cup MalformedBatches

SeqsUpTo(S, n) == UNION {[1..k -> S] : k \in 0..n}

\* the command lines of the merge specification
MergeArgs == SeqsUpTo(BatchFiles, MaxArgs)

\* the command lines of the atomicity specification
AtomicArgs == {<<BatchList(<<E1>>)>>, <<BatchList(<<E2>>)>>, <<BatchNoEntries>>}

-----------------------------------------------------------------------------
(* The merge tool, src/tools/update_leaderboard.py *)

\* Mutant of LoadExisting: `data = {}` also runs after a successful load.
LoadExistingThenClear(file, ioerr) ==
    [ok |-> file.exists /\ ~ioerr /\ Parse(file.content).ok, ds |-> {}]

\* try: open + json.load, except: data = {}
LoadExisting(file, ioerr) ==
    IF file.exists /\ ~ioerr /\ Parse(file.content).ok
    THEN [ok |-> TRUE, ds |-> Parse(file.content).ds]
    ELSE [ok |-> FALSE, ds |-> {}]

\* Mutant of MergeEntry: data.setdefault(key, entry), the first entry is kept.
MergeEntryKeepFirst(dt, entry) ==
    LET k == make_composite_key(entry, unique_key_fields)
    IN  IF k \in Keys(dt) THEN dt ELSE dt \cup {[key |-> k, rec |-> entry]}

\* Mutant of MergeEntry: an entry whose key is taken is stored beside the
\* old one, under the key with another '+'.
MergeEntryKeepBoth(dt, entry) ==
    LET k == make_composite_key(entry, unique_key_fields)
        k2 == IF k \in Keys(dt) THEN k \o <<"+">> ELSE k
    IN  {p \in dt : p.key # k2} \cup {[key |-> k2, rec |-> entry]}

\* data[make_composite_key(entry, unique_key_fields)] = entry
MergeEntry(dt, entry) ==
    LET k == make_composite_key(entry, unique_key_fields)
    IN  {p \in dt : p.key # k} \cup {[key |-> k, rec |-> entry]}

\* for entry in d['entries']: ... ; an element without .get() raises, with the
\* elements before it already stored
RECURSIVE FoldEntries(_, _)
FoldEntries(dt, es) ==
    IF es = <<>> THEN [ok |-> TRUE, ds |-> dt]
    ELSE IF ~Head(es).isdict THEN [ok |-> FALSE, ds |-> dt]
    ELSE FoldEntries(MergeEntry(dt, Head(es)), Tail(es))

\* iterating d['entries']: the elements of an array, the member names (str) of
\* an object
Iterate(entries) ==
    IF entries.t = "list" THEN entries.v
    ELSE [i \in 1..Len(entries.v) |-> NonDict]

\* with open(filename) as f: d = json.load(f); for entry in d['entries']: ...
ReadBatch(dt, file) ==
    IF ~file.valid \/ file.entries.t = "absent"
    THEN [ok |-> FALSE, ds |-> dt]
    ELSE FoldEntries(dt, Iterate(file.entries))

\* Mutant of TempInode: open(leaderboard_file, 'w'), the text is written to
\* the leaderboard file itself.
InPlaceInode == IF dir # 0 THEN dir ELSE FreshInode

\* tempfile.NamedTemporaryFile(dir='.', delete=False): a new file of its own
TempInode == FreshInode

Running == pc \in {"load", "fold", "mktemp", "write"}
Ended == pc \in {"done", "failed_parse", "failed_io", "crashed"}

\* the operator starts the tool with a command line
StartRun(argset, maxruns) ==
    /\ pc = "idle"
    /\ runs < maxruns
    /\ \E a \in argset : args' = a
    /\ pc' = "load"
    /\ runs' = runs + 1
    /\ before' = FileNow
    /\ argi' = 1
    /\ data' = {}
    /\ loadOk' = FALSE
    /\ tmp' = 0
    /\ UNCHANGED <<inodes, dir, committed, readerVars, apiVars>>

StartRunMerge == StartRun(MergeArgs, MaxRuns)

StartRunAtomic == StartRun(AtomicArgs, MaxAtomicRuns)

\* lines 33-38
Load ==
    /\ pc = "load"
    /\ \E ioerr \in BOOLEAN :
          LET r == LoadExisting(FileNow, ioerr)
          IN  /\ data' = r.ds
              /\ loadOk' = r.ok
    /\ pc' = "fold"
    /\ UNCHANGED <<inodes, dir, args, argi, tmp, runs, before, committed,
                   readerVars, apiVars>>

\* lines 41-45, one batch file; an exception ends the process
FoldBatch ==
    /\ pc = "fold"
    /\ argi <= Len(args)
    /\ LET r == ReadBatch(data, args[argi])
       IN  /\ data' = r.ds
           /\ pc' = IF r.ok THEN "fold" ELSE "failed_parse"
    /\ argi' = argi + 1
    /\ UNCHANGED <<inodes, dir, args, loadOk, tmp, runs, before, committed,
                   readerVars, apiVars>>

\* line 48: the temp file is created empty
CreateTemp ==
    /\ pc = "fold"
    /\ argi > Len(args)
    /\ tmp' = TempInode
    /\ inodes' = IF TempInode <= Len(inodes)
                 THEN [inodes EXCEPT ![TempInode] = <<>>]
                 ELSE Append(inodes, <<>>)
    /\ pc' = "write"
    /\ UNCHANGED <<dir, args, argi, data, loadOk, runs, before, committed,
                   readerVars, apiVars>>

\* line 48 raising OSError
CreateTempFails ==
    /\ pc = "fold"
    /\ argi > Len(args)
    /\ pc' = "failed_io"
    /\ UNCHANGED <<inodes, dir, args, argi, data, loadOk, tmp, runs, before,
                   committed, readerVars, apiVars>>

\* line 49: json.dump writes the text to the temp file, a chunk at a time
WriteChunk ==
    /\ pc = "write"
    /\ Len(inodes[tmp]) < Chunks
    /\ inodes' = [inodes EXCEPT ![tmp] =
                     Append(@, Serialize(data)[Len(@) + 1])]
    /\ UNCHANGED <<dir, toolVars, committed, readerVars, apiVars>>

\* line 49 raising OSError (disk full)
WriteFails ==
    /\ pc = "write"
    /\ Len(inodes[tmp]) < Chunks
    /\ pc' = "failed_io"
    /\ UNCHANGED <<inodes, dir, args, argi, data, loadOk, tmp, runs, before,
                   committed, readerVars, apiVars>>

\* line 51: os.replace(tmpname, leaderboard_file)
Replace ==
    /\ pc = "write"
    /\ Len(inodes[tmp]) = Chunks
    /\ dir' = tmp
    /\ committed' = committed \cup {[exists |-> TRUE, content |-> inodes[tmp]]}
    /\ pc' = "done"
    /\ UNCHANGED <<inodes, args, argi, data, loadOk, tmp, runs, before,
                   readerVars, apiVars>>

\* line 51 raising OSError
ReplaceFails ==
    /\ pc = "write"
    /\ Len(inodes[tmp]) = Chunks
    /\ pc' = "failed_io"
    /\ UNCHANGED <<inodes, dir, args, argi, data, loadOk, tmp, runs, before,
                   committed, readerVars, apiVars>>

\* the process is killed before os.replace has happened
Crash ==
    /\ Running
    /\ pc' = "crashed"
    /\ UNCHANGED <<inodes, dir, args, argi, data, loadOk, tmp, runs, before,
                   committed, readerVars, apiVars>>

\* the process has exited and its memory is gone; the operator may start
\* another one.  A temp file it left behind is never opened again.
Exit ==
    /\ Ended
    /\ pc' = "idle"
    /\ args' = <<>>
    /\ argi' = 1
    /\ data' = {}
    /\ loadOk' = FALSE
    /\ tmp' = 0
    /\ before' = FileNow
    /\ inodes' = Collect(inodes, Live(dir, 0, rpc, rfd))
    /\ committed' = IF Quiet(rpc) THEN {FileNow} ELSE committed
    /\ UNCHANGED <<dir, runs, readerVars, apiVars>>

ToolStep ==
    \/ Load \/ FoldBatch \/ CreateTemp \/ CreateTempFails \/ WriteChunk
    \/ WriteFails \/ Replace \/ ReplaceFails \/ Crash \/ Exit

-----------------------------------------------------------------------------
(* The specification of the merge tool alone *)

\* the leaderboard file before the first run: absent, empty (not JSON), or {}
InitFiles ==
    { [dir |-> 0, inodes |-> <<>>],
      [dir |-> 1, inodes |-> <<<<>>>>],
      [dir |-> 1, inodes |-> <<Serialize({})>>] }

InitTool ==
    /\ pc = "idle"
    /\ args = <<>>
    /\ argi = 1
    /\ data = {}
    /\ loadOk = FALSE
    /\ tmp = 0
    /\ runs = 0

InitFrom(files) ==
    /\ \E f \in files : dir = f.dir /\ inodes = f.inodes
    /\ InitTool
    /\ before = FileNow
    /\ committed = {FileNow}
    /\ rpc = [r \in Readers |-> "idle"]
    /\ rfd = [r \in Readers |-> 0]
    /\ rbuf = [r \in Readers |-> <<>>]
    /\ weather = <<>>
    /\ resp = [route |-> "none", p1 |-> <<>>, p2 |-> <<>>, status |-> 0, body |-> <<>>]

InitMerge == InitFrom(InitFiles)

NextMerge == StartRunMerge \/ ToolStep

SpecMerge == InitMerge /\ [][NextMerge]_vars

-----------------------------------------------------------------------------
(* What a run was given and what it left *)

\* the dataset the leaderboard file held when the run began
ExistingDs == Parse(before.content).ds

\* the dataset the leaderboard file holds now
PersistedDs == Parse(FileNow.content).ds

\* the entries of a batch file, in sequence order
EntriesOf(file) ==
    IF ~file.valid \/ file.entries.t = "absent" THEN <<>>
    ELSE Iterate(file.entries)

\* the entries of a command line, in application order
RECURSIVE ArgEntries(_)
ArgEntries(as) ==
    IF as = <<>> THEN <<>> ELSE EntriesOf(Head(as)) \o ArgEntries(Tail(as))

KeyOf(e) == make_composite_key(e, unique_key_fields)

\* positions of the entries of es with composite key k
At(es, k) == {i \in 1..Len(es) : KeyOf(es[i]) = k}

LastAt(es, k) == CHOOSE i \in At(es, k) : \A j \in At(es, k) : j <= i

\* the fold of a whole command line over a dataset
RECURSIVE FoldArgs(_, _)
FoldArgs(dt, as) ==
    IF as = <<>> THEN dt ELSE FoldArgs(ReadBatch(dt, Head(as)).ds, Tail(as))

-----------------------------------------------------------------------------
(* Claims about the merge tool, checked under SpecMerge *)

\* C2: a run that is interrupted before os.replace, or whose temp file
\* creation, write or os.replace fails, leaves the leaderboard file exactly as
\* the run found it.
C2_InterruptedRunLeavesFile ==
    (Running \/ pc \in {"crashed", "failed_io"}) => FileNow = before

\* C2 witness: killed after the whole text is in the temp file, before
\* os.replace, with a dataset that differs from the file's.
C2_Witness ==
    /\ pc = "crashed"
    /\ tmp # 0
    /\ Len(inodes[tmp]) = Chunks
    /\ before.exists
    /\ inodes[tmp] # before.content

\* C3 (as claimed): a run given a malformed batch file fails and leaves the
\* leaderboard file as it found it.
C3_MalformedBatchFailsRun ==
    (pc # "idle" /\ \E i \in 1..Len(args) : args[i] \in MalformedBatches)
        => (pc # "done" /\ FileNow = before)

\* The part of C3 the code keeps: a batch file on which json.load, d['entries']
\* or entry.get raises ends the run before the temp file is created.
C3_RaisingBatchFailsRun ==
    (pc # "idle" /\ \E i \in 1..Len(args) :
                       args[i] \in MalformedBatches \ {BatchEntriesEmptyObject})
        => (pc # "done" /\ FileNow = before)

\* C4: after a successful run the record under each key is the last entry
\* with that key in application order (the existing dataset, then the batches
\* in argument order, entries in sequence order), as JSON stores it; and no
\* other key is stored.
C4_LastWriteWins ==
    pc = "done" =>
        LET es == ArgEntries(args)
            old == IF loadOk THEN ExistingDs ELSE {}
        IN  /\ Parse(FileNow.content).ok
            /\ Keys(PersistedDs) = Keys(old) \cup {KeyOf(es[i]) : i \in 1..Len(es)}
            /\ \A k \in Keys(PersistedDs) :
                   Lookup(PersistedDs, k) =
                       IF At(es, k) # {} THEN DumpLoadRec(es[LastAt(es, k)])
                       ELSE Lookup(old, k)

\* C4 witness: a key of the existing dataset is given twice in the run, by
\* different records in different batch files.
C4_Witness ==
    /\ pc = "done"
    /\ loadOk
    /\ Len(args) = 2
    /\ \E e1 \in {EntriesOf(args[1])[i] : i \in 1..Len(EntriesOf(args[1]))} :
       \E e2 \in {EntriesOf(args[2])[i] : i \in 1..Len(EntriesOf(args[2]))} :
           /\ KeyOf(e1) = KeyOf(e2)
           /\ e1 # e2
           /\ KeyOf(e1) \in Keys(ExistingDs)
           /\ Lookup(ExistingDs, KeyOf(e1)) # e2

\* C5: merging a command line again into the dataset a successful run
\* persisted gives that dataset back, and a run with a batch file listed
\* twice persists what the batch merged once gives.
C5_MergeIdempotent ==
    pc = "done" =>
        /\ DumpLoad(FoldArgs(PersistedDs, args)) = PersistedDs
        /\ \A b \in BatchFiles :
               args = <<b, b>> =>
                   PersistedDs =
                       DumpLoad(ReadBatch(IF loadOk THEN ExistingDs ELSE {}, b).ds)

\* C5 witness: a successful run over an existing dataset with one batch file
\* of two entries listed twice.
C5_Witness ==
    /\ pc = "done"
    /\ loadOk
    /\ ExistingDs # {}
    /\ Len(args) = 2
    /\ args[1] = args[2]
    /\ Len(EntriesOf(args[1])) = 2

\* C6 (as claimed): every record of the leaderboard file is stored under its
\* own composite key.
C6_KeyMatchesRecord ==
    \A p \in PersistedDs : make_composite_key(p.rec, unique_key_fields) = p.key

\* The part of C6 the code keeps: a record whose key fields are text, numbers
\* or missing is stored under its own composite key.
C6_ScalarKeyMatchesRecord ==
    \A p \in PersistedDs :
        (\A i \in 1..Len(unique_key_fields) : p.rec[unique_key_fields[i]].t # "obj")
            => make_composite_key(p.rec, unique_key_fields) = p.key

\* C10: a successful run that read the existing file keeps every key, and
\* keeps the record of every key no batch entry of the run has.
C10_UntouchedRecordsKept ==
    (pc = "done" /\ loadOk) =>
        \A k \in Keys(ExistingDs) :
            /\ k \in Keys(PersistedDs)
            /\ At(ArgEntries(args), k) = {} =>
                   Lookup(PersistedDs, k) = Lookup(ExistingDs, k)

\* C10 witness: a successful run with entries that leaves one existing record
\* alone and replaces another.
C10_Witness ==
    /\ pc = "done"
    /\ loadOk
    /\ \E k \in Keys(ExistingDs) : At(ArgEntries(args), k) = {}
    /\ \E k \in Keys(ExistingDs) :
           /\ At(ArgEntries(args), k) # {}
           /\ Lookup(PersistedDs, k) # Lookup(ExistingDs, k)

-----------------------------------------------------------------------------
(* read_json_dict of the leaderboard file, src/restapi.py lines 68-78, as the
   threaded server runs it beside a merge tool run: open, read to the end of
   the file, decode *)

\* line 74, open(fname, 'r'): the file object refers to the inode the name
\* has now; a missing file raises, the request is over and nothing was read
ROpen(r) ==
    /\ rpc[r] = "idle"
    /\ IF dir = 0
       THEN UNCHANGED <<rpc, rfd, rbuf>>
       ELSE /\ rpc' = [rpc EXCEPT ![r] = "reading"]
            /\ rfd' = [rfd EXCEPT ![r] = dir]
            /\ rbuf' = [rbuf EXCEPT ![r] = <<>>]
    /\ UNCHANGED <<inodes, dir, toolVars, committed, apiVars>>

\* line 75, json.load: f.read() takes the next chunk of the open inode
RRead(r) ==
    /\ rpc[r] = "reading"
    /\ Len(rbuf[r]) < Len(inodes[rfd[r]])
    /\ rbuf' = [rbuf EXCEPT ![r] = Append(@, inodes[rfd[r]][Len(@) + 1])]
    /\ UNCHANGED <<inodes, dir, toolVars, committed, rpc, rfd, apiVars>>

\* lines 75-78: end of file; the text is decoded (or json.load raises) and
\* the file object is closed
REof(r) ==
    /\ rpc[r] = "reading"
    /\ Len(rbuf[r]) >= Len(inodes[rfd[r]])
    /\ rpc' = [rpc EXCEPT ![r] = IF Parse(rbuf[r]).ok THEN "done" ELSE "raised"]
    /\ rfd' = [rfd EXCEPT ![r] = 0]
    /\ inodes' = Collect(inodes, Live(dir, tmp, rpc', rfd'))
    /\ UNCHANGED <<dir, toolVars, committed, rbuf, apiVars>>

\* the request is answered; the worker takes the next one
RReturn(r) ==
    /\ rpc[r] \in {"done", "raised"}
    /\ rpc' = [rpc EXCEPT ![r] = "idle"]
    /\ rbuf' = [rbuf EXCEPT ![r] = <<>>]
    /\ committed' = IF Quiet(rpc') THEN {FileNow} ELSE committed
    /\ UNCHANGED <<inodes, dir, toolVars, rfd, apiVars>>

ReaderStep == \E r \in Readers : ROpen(r) \/ RRead(r) \/ REof(r) \/ RReturn(r)

NextAtomic == StartRunAtomic \/ ToolStep \/ ReaderStep

\* the leaderboard file before the first run: absent, or {}
InitFilesAtomic ==
    { [dir |-> 0, inodes |-> <<>>],
      [dir |-> 1, inodes |-> <<Serialize({})>>] }

InitAtomic == InitFrom(InitFilesAtomic)

SpecAtomic == InitAtomic /\ [][NextAtomic]_vars

-----------------------------------------------------------------------------
(* Claims about concurrent reads, checked under SpecAtomic *)

\* C1: whatever the interleaving with merge tool runs, the text a read of the
\* leaderboard file returns is the whole content the file had before a run or
\* the whole content a run gave it: never a part of one, never a mix.
C1_ReadsSeeWholeFile ==
    \A r \in Readers :
        rpc[r] \in {"done", "raised"} =>
            [exists |-> TRUE, content |-> rbuf[r]] \in committed

\* C1 witness: a read that was opened before os.replace and ended after it
\* returns the old dataset, while the file holds a different new one.
C1_Witness ==
    \E r \in Readers :
        /\ rpc[r] = "done"
        /\ pc = "done"
        /\ rbuf[r] = before.content
        /\ rbuf[r] # FileNow.content
        /\ Parse(FileNow.content).ok

-----------------------------------------------------------------------------
(* The REST API, src/restapi.py *)

\* The literal text each format of ts_formats ends with, after %S.  The
\* numeric fields %Y-%m-%dT%H:%M:%S are modelled as one numeric field.
ts_formats == << <<"+", "0", "0", ":", "0", "0">>, <<"Z">>, <<>> >>

None == [ok |-> FALSE, t |-> 0]

EndsWith(s, suffix) ==
    /\ Len(s) >= Len(suffix)
    /\ SubSeq(s, Len(s) - Len(suffix) + 1, Len(s)) = suffix

RECURSIVE Number(_)
Number(digits) ==
    IF digits = <<>> THEN 0
    ELSE 10 * Number(SubSeq(digits, 1, Len(digits) - 1))
             + (Ord(digits[Len(digits)]) - Ord("0"))

\* datetime.datetime.strptime(ts, fmt): a numeric field takes one or two
\* digits, padded or not; anything else raises ValueError
Strptime(s, suffix) ==
    LET body == SubSeq(s, 1, Len(s) - Len(suffix))
    IN  IF /\ EndsWith(s, suffix)
           /\ Len(body) \in {1, 2}
           /\ \A i \in 1..Len(body) : body[i] \in Digits
        THEN [ok |-> TRUE, t |-> Number(body)]
        ELSE None

\* for fmt in ts_formats: try strptime, break on the first success; else None
RECURSIVE TryFormats(_, _)
TryFormats(s, fmts) ==
    IF fmts = <<>> THEN None
    ELSE IF Strptime(s, Head(fmts)).ok THEN Strptime(s, Head(fmts))
    ELSE TryFormats(s, Tail(fmts))

\* ts_parse(ts): strptime of a value that is no str raises TypeError, which
\* the bare except takes like any other failure
ts_parse(val) ==
    IF val.t # "str" THEN None ELSE TryFormats(val.v, ts_formats)

\* read_json_dict(fname) in one step: the decoded file, or an exception
read_json_dict(file) ==
    IF file.exists THEN Parse(file.content) ELSE [ok |-> FALSE, ds |-> {}]

Abs(x) == IF x < 0 THEN -x ELSE x

\* Mutant of Closer: `<=`, the last of several nearest observations wins.
CloserOrEqual(d, nearest) == ~nearest.ok \/ d <= nearest.t

\* line 92: nearest is None or abs(dt - dte) < nearest
Closer(d, nearest) == ~nearest.ok \/ d < nearest.t

\* weather_find, lines 87-95: the loop over events['features'], with the
\* state (nearest, weather) it carries; abs(dt - None) raises TypeError, an
\* observation without a timestamp raises KeyError
RECURSIVE WeatherLoop(_, _, _, _)
WeatherLoop(dt, feats, nearest, found) ==
    IF feats = <<>> THEN [raised |-> FALSE, weather |-> found]
    ELSE LET event == Head(feats)
             dte == ts_parse(event.timestamp)
         IN  IF event.timestamp.t = "absent" \/ ~dte.ok \/ ~dt.ok
             THEN [raised |-> TRUE, weather |-> <<>>]
             ELSE IF Closer(Abs(dt.t - dte.t), nearest)
             THEN WeatherLoop(dt, Tail(feats),
                              [ok |-> TRUE, t |-> Abs(dt.t - dte.t)], <<event>>)
             ELSE WeatherLoop(dt, Tail(feats), nearest, found)

\* the result is a sequence: <<>> for None, <<properties>> otherwise
weather_find(dt, feats) == WeatherLoop(dt, feats, None, <<>>)

\* Mutant of InRange: the upper bound is exclusive.
InRangeUpperExclusive(dt, dt1, dt2) == dt.t >= dt1.t /\ dt.t < dt2.t

\* line 119: dt >= dt1 and dt <= dt2
InRange(dt, dt1, dt2) == dt.t >= dt1.t /\ dt.t <= dt2.t

\* lines 116-120: the loop over sorted(events); a record without start_date
\* raises KeyError, one whose start_date does not parse raises TypeError at
\* the comparison with None
RECURSIVE FilterLoop(_, _, _, _, _)
FilterLoop(ks, events, dt1, dt2, retlist) ==
    IF ks = <<>> THEN [raised |-> FALSE, list |-> retlist]
    ELSE LET rec == Lookup(events, Head(ks))
             dt == ts_parse(rec.start_date)
         IN  IF rec.start_date.t = "absent" \/ ~dt.ok
             THEN [raised |-> TRUE, list |-> <<>>]
             ELSE FilterLoop(Tail(ks), events, dt1, dt2,
                             IF InRange(dt, dt1, dt2)
                             THEN Append(retlist, rec) ELSE retlist)

\* what the client gets: InvalidUsage goes through handle_invalid_usage
\* (status_code 400 and the message), any other exception is Flask's 500
Response(route, p1, p2, status, body) ==
    [route |-> route, p1 |-> p1, p2 |-> p2, status |-> status, body |-> body]

\* GET /leaders/timerange/<ts1>/<ts2>
leaders_timerange(ts1, ts2) ==
    LET dt1 == ts_parse(JStr(ts1))
        dt2 == ts_parse(JStr(ts2))
        events == read_json_dict(FileNow)
        r == FilterLoop(Sorted(Keys(events.ds)), events.ds, dt1, dt2, <<>>)
    IN  IF ~dt1.ok \/ ~dt2.ok \/ dt2.t < dt1.t
        THEN Response("timerange", ts1, ts2, 400, <<>>)
        ELSE IF ~events.ok \/ r.raised
        THEN Response("timerange", ts1, ts2, 500, <<>>)
        ELSE Response("timerange", ts1, ts2, 200, r.list)

\* GET /weather/<ts>
weather_at_time(ts) ==
    LET dt == ts_parse(JStr(ts))
        r == weather_find(dt, weather)
    IN  IF ~dt.ok THEN Response("weather", ts, <<>>, 400, <<>>)
        ELSE IF r.raised THEN Response("weather", ts, <<>>, 500, <<>>)
        ELSE Response("weather", ts, <<>>, 200, r.weather)

\* the timestamps of the requests
UrlTimestamps == {TsZ1, TsPadded2, <<"2">>, TsOffset3, TsGarbage}

LeadersTimerange ==
    /\ \E ts1 \in UrlTimestamps, ts2 \in UrlTimestamps :
           resp' = leaders_timerange(ts1, ts2)
    /\ UNCHANGED <<inodes, dir, toolVars, committed, readerVars, weather>>

WeatherAtTime ==
    /\ \E ts \in UrlTimestamps : resp' = weather_at_time(ts)
    /\ UNCHANGED <<inodes, dir, toolVars, committed, readerVars, weather>>

-----------------------------------------------------------------------------
(* The specification of the API over fixed files *)

E3 == Rec(JStr(TsOffset3), JStr(<<"a">>), JNum(<<"1">>), JNum(<<"3">>))
\* start_date is text no format accepts
EBadDate == Rec(JStr(TsGarbage), JStr(<<"b">>), JNum(<<"1">>), JNum(<<"1">>))
\* start_date is a number
ENumDate == Rec(JNum(<<"2">>), JStr(<<"a">>), JNum(<<"3">>), JNum(<<"1">>))

ApiRecords == {E1, E2, E3, EBadDate, ENumDate}

\* the leaderboard files the API is run over
ApiDatasets ==
    {{[key |-> KeyOf(e), rec |-> e] : e \in S} : S \in SUBSET ApiRecords}

Obs(ts, temp) == [timestamp |-> ts, temperature |-> temp]

\* observations: two at the same instant, and one whose timestamp is garbage
Observations ==
    { Obs(JStr(TsZ1), <<"1">>), Obs(JStr(<<"3">>), <<"2">>),
      Obs(JStr(TsOffset3), <<"3">>), Obs(JStr(TsGarbage), <<"0">>) }

\* the pairs of files the API is run over: every leaderboard file beside one
\* weather file, and every weather file beside one leaderboard file
ApiFiles ==
    {[ds |-> ds, weather |-> <<Obs(JStr(TsZ1), <<"1">>)>>] : ds \in ApiDatasets}
        \cup {[ds |-> {[key |-> KeyOf(E1), rec |-> E1]}, weather |-> w] :
                  w \in SeqsUpTo(Observations, MaxObs)}

InitApi ==
    /\ \E f \in ApiFiles :
           /\ inodes = <<Serialize(f.ds)>>
           /\ weather = f.weather
    /\ dir = 1
    /\ InitTool
    /\ before = FileNow
    /\ committed = {FileNow}
    /\ rpc = [r \in Readers |-> "idle"]
    /\ rfd = [r \in Readers |-> 0]
    /\ rbuf = [r \in Readers |-> <<>>]
    /\ resp = Response("none", <<>>, <<>>, 0, <<>>)

NextApi == LeadersTimerange \/ WeatherAtTime

SpecApi == InitApi /\ [][NextApi]_vars

-----------------------------------------------------------------------------
(* Claims about the API, checked under SpecApi *)

\* the records of the leaderboard file whose start_date parses
Parseable(ds) == {p \in ds : ts_parse(p.rec.start_date).ok}

\* C7: with parsed bounds lo <= hi the timerange query answers with exactly
\* the records whose parsed start_date t has lo <= t <= hi, each once, in
\* ascending order of their keys; with hi < lo it answers 400 and no records.
C7_TimerangeFilter ==
    resp.route = "timerange" =>
        LET lo == ts_parse(JStr(resp.p1))
            hi == ts_parse(JStr(resp.p2))
            ds == PersistedDs
            K == {p.key : p \in {q \in ds :
                     /\ lo.t <= ts_parse(q.rec.start_date).t
                     /\ ts_parse(q.rec.start_date).t <= hi.t}}
        IN  /\ (lo.ok /\ hi.ok /\ hi.t < lo.t) =>
                   (resp.status = 400 /\ resp.body = <<>>)
            /\ (lo.ok /\ hi.ok /\ lo.t <= hi.t /\ Parseable(ds) = ds) =>
                   /\ resp.status = 200
                   /\ Len(resp.body) = Cardinality(K)
                   /\ \A i \in 1..Len(resp.body) :
                          \E k \in K :
                              /\ resp.body[i] = Lookup(ds, k)
                              /\ i = 1 + Cardinality({j \in K : StrLess(j, k)})
            /\ resp.status = 200 => (lo.ok /\ hi.ok /\ lo.t <= hi.t)

\* C7 witness: a query that returns two records in key order, which is not
\* their time order, one of them on the upper bound, and leaves one out.
C7_Witness ==
    /\ resp.route = "timerange"
    /\ resp.status = 200
    /\ Len(resp.body) = 2
    /\ ts_parse(resp.body[1].start_date).t > ts_parse(resp.body[2].start_date).t
    /\ ts_parse(resp.body[1].start_date).t = ts_parse(JStr(resp.p2)).t
    /\ Cardinality(PersistedDs) = 3

\* C8: weather_find returns an observation at the least distance from the
\* target, the first such in input order, and None for no observations.
C8_NearestFirstWins ==
    resp.route = "weather" =>
        LET dt == ts_parse(JStr(resp.p1))
            Dist(i) == Abs(dt.t - ts_parse(weather[i].timestamp).t)
        IN  /\ (/\ dt.ok
                /\ \A i \in 1..Len(weather) : ts_parse(weather[i].timestamp).ok)
                   => resp.status = 200
            /\ resp.status = 200 =>
                   IF weather = <<>> THEN resp.body = <<>>
                   ELSE \E i \in 1..Len(weather) :
                           /\ resp.body = <<weather[i]>>
                           /\ \A j \in 1..Len(weather) : Dist(i) <= Dist(j)
                           /\ \A j \in 1..(i - 1) : Dist(j) > Dist(i)

\* C8 witness: two different observations at the same least distance; the
\* first one is returned.
C8_Witness ==
    /\ resp.route = "weather"
    /\ resp.status = 200
    /\ Len(weather) = 2
    /\ weather[1] # weather[2]
    /\ Abs(ts_parse(JStr(resp.p1)).t - ts_parse(weather[1].timestamp).t)
           = Abs(ts_parse(JStr(resp.p1)).t - ts_parse(weather[2].timestamp).t)
    /\ resp.body = <<weather[1]>>

\* C9 (as claimed): a timerange request with valid bounds over a dataset with
\* a record whose start_date does not parse is answered 400.
C9_MalformedRecordIs400 ==
    (/\ resp.route = "timerange"
     /\ ts_parse(JStr(resp.p1)).ok
     /\ ts_parse(JStr(resp.p2)).ok
     /\ ts_parse(JStr(resp.p1)).t <= ts_parse(JStr(resp.p2)).t
     /\ Parseable(PersistedDs) # PersistedDs)
        => resp.status = 400

=============================================================================
